---- MODULE Spec2Model ----
(***************************************************************************)
(* Model of the OTP release builder: src/src/index.ts (the orchestrator)   *)
(* and the asset module (getOrCreateRelease, getAsset, makeAsset,          *)
(* uploadAssets and the patch selection they call).                         *)
(***************************************************************************)
EXTENDS Integers, Sequences, FiniteSets, TLC

(***************************************************************************)
(* Bounds of the model.                                                     *)
(***************************************************************************)
\* longest tag list `git tag --list` reports in a run
MaxTags == 2
\* number of consecutive runs of the action against the same registry
MaxRuns == 2
\* most top-level sub directories the release directory is given
MaxSubDirs == 2
\* most failures the collaborators (git, the registry, the build tools) produce
MaxFaults == 2
\* longest asset list the registry answers getAsset with
MaxAssets == 3
\* number of runs that resolve the release of the same tag at once
MaxRacers == 3

(***************************************************************************)
(* JavaScript values: numbers, NaN and undefined, and the comparisons the   *)
(* patch predicates use.  A relational comparison with NaN or undefined is  *)
(* false; == and === with a number are false for NaN and undefined.         *)
(***************************************************************************)
Num(n) == [t |-> "num", v |-> n]
NaN == [t |-> "nan", v |-> 0]
Undefined == [t |-> "undef", v |-> 0]

IsNum(a) == a.t = "num"
Lt(a, b) == IsNum(a) /\ IsNum(b) /\ a.v < b.v
\* a <= that holds as soon as an operand is no number
LeOrNoNumber(a, b) == ~IsNum(a) \/ ~IsNum(b) \/ a.v <= b.v

Le(a, b) == IsNum(a) /\ IsNum(b) /\ a.v <= b.v
Eq(a, b) == IsNum(a) /\ IsNum(b) /\ a.v = b.v
\* a || b : a when a is truthy (a number other than 0), else b
OrElse(a, b) == IF IsNum(a) /\ a.v # 0 THEN a ELSE b

(***************************************************************************)
(* Strings are sequences of one-character strings.                          *)
(***************************************************************************)
Digits == {"0", "1", "2", "3", "4", "5", "6", "7", "8", "9"}

DigitVal(c) ==
    CASE c = "0" -> 0 [] c = "1" -> 1 [] c = "2" -> 2 [] c = "3" -> 3
      [] c = "4" -> 4 [] c = "5" -> 5 [] c = "6" -> 6 [] c = "7" -> 7
      [] c = "8" -> 8 [] c = "9" -> 9

RECURSIVE DigitPrefix(_)
\* the longest prefix of s made of decimal digits
DigitPrefix(s) ==
    IF s = <<>> \/ Head(s) \notin Digits THEN <<>>
    ELSE <<Head(s)>> \o DigitPrefix(Tail(s))

RECURSIVE DecimalValue(_)
DecimalValue(ds) ==
    IF ds = <<>> THEN 0
    ELSE 10 * DecimalValue(SubSeq(ds, 1, Len(ds) - 1)) + DigitVal(ds[Len(ds)])

\* parseInt(string, 10): an optional sign, then the leading digits; NaN when
\* there is no digit
ParseInt(s) ==
    LET neg == s # <<>> /\ Head(s) = "-"
        body == IF s # <<>> /\ Head(s) \in {"-", "+"} THEN Tail(s) ELSE s
        ds == DigitPrefix(body)
    IN  IF ds = <<>> THEN NaN
        ELSE Num(IF neg THEN 0 - DecimalValue(ds) ELSE DecimalValue(ds))

OtpPrefix == <<"O", "T", "P", "-">>

\* otpVersion.replace(/^OTP-/, "")
StripOtpPrefix(s) ==
    IF Len(s) >= Len(OtpPrefix) /\ SubSeq(s, 1, Len(OtpPrefix)) = OtpPrefix
    THEN SubSeq(s, Len(OtpPrefix) + 1, Len(s))
    ELSE s

RECURSIVE SplitAcc(_, _, _)
SplitAcc(s, cur, out) ==
    IF s = <<>> THEN Append(out, cur)
    ELSE IF Head(s) = "." THEN SplitAcc(Tail(s), <<>>, Append(out, cur))
    ELSE SplitAcc(Tail(s), Append(cur, Head(s)), out)

\* string.split(".")
SplitDots(s) == SplitAcc(s, <<>>, <<>>)

\* const [major, minor, ...rest] = otpVersion.replace(...).split(".").map(parseInt)
ParseVersion(tag) ==
    LET parts == SplitDots(StripOtpPrefix(tag))
        nums == [i \in 1..Len(parts) |-> ParseInt(parts[i])]
    IN  [major |-> nums[1],
         minor |-> IF Len(nums) >= 2 THEN nums[2] ELSE Undefined,
         rest |-> SubSeq(nums, 3, Len(nums))]

\* rest[0] of a JavaScript array: undefined when the array is empty
RestHead(rest) == IF Len(rest) >= 1 THEN rest[1] ELSE Undefined

(***************************************************************************)
(* Patch selection (asset module, maybePatch and the functions it calls).   *)
(***************************************************************************)
MaybePatchDarwinCond(major, minor, rest) ==
    Le(Num(17), major) /\ Le(major, Num(19))

MaybePatchCatalinaCond(major, minor, rest) ==
    \/ Lt(Num(19), major) /\ Lt(major, Num(23))
    \/ Eq(major, Num(19)) /\ Lt(Num(1), minor)
    \/ Eq(major, Num(22)) /\ Eq(minor, Num(3))
         /\ Lt(OrElse(RestHead(rest), Num(0)), Num(1))

MaybePatchAllCond(major, minor, rest) ==
    Le(Num(17), major) /\ Le(major, Num(19))

\* the earlier single-patch selector: true when the Catalina patch is applied
MaybeApplyPatchCond(plat, major, minor, rest) ==
    ~(\/ plat # "darwin"
      \/ Le(Num(23), major)
      \/ Eq(major, Num(22)) /\ Eq(minor, Num(3)) /\ Le(Num(1), RestHead(rest)))

(***************************************************************************)
(* Inputs of a run.                                                         *)
(***************************************************************************)
RECURSIVE JoinDots(_)
JoinDots(comps) ==
    IF Len(comps) = 1 THEN comps[1]
    ELSE comps[1] \o <<".">> \o JoinDots(Tail(comps))

OtpTag(comps) == OtpPrefix \o JoinDots(comps)

\* the tags of the repository, in the order git lists them (by name)
RepoTags ==
    << OtpTag(<< <<"1", "9">>, <<"2">> >>),
       OtpTag(<< <<"2", "2">>, <<"3">>, <<"1">> >>),
       OtpTag(<< <<"2", "3">>, <<"0">> >>) >>

RECURSIVE Pick(_, _)
\* the elements of the sequence q at the positions in S, in the order of q
Pick(q, S) ==
    IF q = <<>> THEN <<>>
    ELSE LET n == Len(q)
             front == Pick(SubSeq(q, 1, n - 1), S)
         IN  IF n \in S THEN Append(front, q[n]) ELSE front

\* what `git tag --list pattern` can report: the tags a pattern selects, in
\* git's order
TagLists ==
    { Pick(RepoTags, S) : S \in { T \in SUBSET (1..Len(RepoTags)) :
                                    Cardinality(T) <= MaxTags } }

\* the tags the patch selection is examined on: OTP-major.minor[.rest]
MajorTexts == { <<"1", "6">>, <<"1", "7">>, <<"1", "9">>, <<"2", "0">>,
                <<"2", "2">>, <<"2", "3">>, <<"x">> }
MinorTexts == { <<"0">>, <<"1">>, <<"2">>, <<"3">>, <<"y">> }
RestTexts == { <<"0">>, <<"1">>, <<"z">> }

PatchTags ==
    { OtpTag(<<ma, mi>>) : ma \in MajorTexts, mi \in MinorTexts } \cup
    { OtpTag(<<ma, mi, re>>) : ma \in MajorTexts, mi \in MinorTexts,
                               re \in RestTexts }

Platforms == {"darwin", "linux"}

\* env.GITHUB_REPOSITORY: set to owner/repo, set without a slash, or unset
Repositories ==
    { [defined |-> TRUE, val |-> <<"o", "/", "r">>],
      [defined |-> TRUE, val |-> <<"o", "r">>],
      [defined |-> FALSE, val |-> <<>>] }

RECURSIVE SplitSlashAcc(_, _, _)
SplitSlashAcc(s, cur, out) ==
    IF s = <<>> THEN Append(out, cur)
    ELSE IF Head(s) = "/" THEN SplitSlashAcc(Tail(s), <<>>, Append(out, cur))
    ELSE SplitSlashAcc(Tail(s), Append(cur, Head(s)), out)

\* (env.GITHUB_REPOSITORY as string).split("/")
SplitSlash(s) == SplitSlashAcc(s, <<>>, <<>>)

\* uname -s -r, trimmed, lower-cased, the space replaced by "-"
UnameStem(plat) == IF plat = "darwin" THEN "darwin-19.6.0" ELSE "linux-5.4.0"

\* getAssetName: the stem with ".tar.gz" appended
AssetNameOf(plat) == [stem |-> UnameStem(plat), exts |-> <<".tar.gz">>]

\* path.basename(base, ".tar.gz") + ".sha256.txt"
Sha256FileName(name) ==
    LET n == Len(name.exts)
        stripped == IF n >= 1 /\ name.exts[n] = ".tar.gz"
                    THEN SubSeq(name.exts, 1, n - 1) ELSE name.exts
    IN  [stem |-> name.stem, exts |-> Append(stripped, ".sha256.txt")]

(***************************************************************************)
(* State.                                                                   *)
(***************************************************************************)
VARIABLES
    platform,     \* os.platform()
    secretToken,  \* whether the secret-token input is given
    repository,   \* env.GITHUB_REPOSITORY
    gitTags,      \* what `git tag --list pattern` reports, in order
    run,          \* number of the current run of the action
    pc,           \* position of run()
    ownerRepo,    \* [owner, repo] of run(): the split repository
    assetName,    \* assetName of run()
    otpVersions,  \* otpVersions of run()
    idx,          \* position of the for loop in otpVersions
    release,      \* releaseId / uploadUrl of the loop body (0: none yet)
    savedCwd,     \* currentWorkingDirectory of archive()
    cwd,          \* process.cwd(): "root" or "sub" (release/<sub directory>)
    wtPatches,    \* patches applied to the tracked files of the working tree
    files,        \* the untracked build output: archive and checksum file
    releases,     \* registry: the releases, [tag, id]
    assets,       \* registry: per release id, its assets in creation order,
                  \* [id, name, content]
    nextId,       \* registry: the id of the next release
    uploads,      \* upload requests started and not yet settled
    errorLog,     \* versions named by the error() lines of this run
    infoLog,      \* versions named by the info() lines of this run
    failed,       \* whether setFailed was called in this run
    unhandled,    \* rejected promises nobody awaits, [ver, kind, status]
    cur,          \* summary of the calls made for the version in progress
    patchLog,     \* patches given to the patch utility for it, in order
    stageLog,     \* build tools that completed for it, in order
    done,         \* summaries of the versions this run has finished with
    atStart,      \* registry and completeness at the start of this run
    resolutions,  \* per position of gitTags, the outcomes of the
                  \* getOrCreateRelease calls for that tag, over the runs
    faults,       \* failures the collaborators have produced so far
    resolvers     \* runs on other machines that resolve a release in the same
                  \* registry: per run, its position in getOrCreateRelease

vars ==
    <<platform, secretToken, repository, gitTags, run, pc, ownerRepo, assetName,
      otpVersions, idx, release, savedCwd, cwd, wtPatches, files, releases,
      assets, nextId, uploads, errorLog, infoLog, failed, unhandled, cur,
      patchLog, stageLog, done, atStart, resolutions, faults, resolvers>>

inputs == <<platform, secretToken, repository, gitTags>>
tree == <<cwd, wtPatches, files>>
registry == <<releases, assets, nextId>>
\* what only the loop of run() changes
loopState == <<idx, release, errorLog, infoLog, cur, patchLog, stageLog, done>>

NoFile == [exists |-> FALSE, src |-> <<>>, text |-> <<>>]
\* the untracked files of the checkout: what the build tools leave ("build"),
\* the archive and the checksum file
NoFiles == [k \in {"build", "archive", "sha"} |-> NoFile]

\* path.join(dir, "release", base): the directories and the base name
JoinPath(dir, base) == [dir |-> <<dir, "release">>, base |-> base]

NoPath == [dir |-> <<>>, base |-> [stem |-> "", exts |-> <<>>]]

NewCur ==
    [lookup |-> 0, creates |-> 0, created |-> 0, asset |-> "unchecked",
     assetId |-> 0, worked |-> FALSE, subdirs |-> -1, tars |-> 0, archived |-> NoPath,
     uploads |-> 0, result |-> "running", cause |-> "none"]

\* the release of a tag in the registry, 0 when there is none
ReleaseOf(rels, tag) ==
    IF \E r \in rels : r.tag = tag
    THEN (CHOOSE r \in rels : r.tag = tag).id
    ELSE 0

\* listAssetsForRelease: the assets of a release, in creation order
AssetsOf(as, rel) == IF rel \in DOMAIN as THEN as[rel] ELSE <<>>

\* a find that never matches
FindAssetNever(list, name) == 0

\* a find that looks at the first asset only
FindFirstHead(list, name) ==
    IF list # <<>> /\ Head(list).name = name THEN Head(list).id ELSE 0

RECURSIVE FindFirst(_, _)
FindFirst(list, name) ==
    IF list = <<>> THEN 0
    ELSE IF Head(list).name = name THEN Head(list).id
    ELSE FindFirst(Tail(list), name)

\* assets.find((asset) => asset.name === assetName)?.id, 0 for undefined
FindAsset(list, name) == FindFirst(list, name)

\* the registry's own view: the id of the asset of that name in a release's
\* list, 0 when it holds none
AssetNamed(list, name) == FindFirst(list, name)

\* whether the tag has an asset of that name under its release
Published(rels, as, tag, name) ==
    /\ ReleaseOf(rels, tag) # 0
    /\ AssetNamed(AssetsOf(as, ReleaseOf(rels, tag)), name) # 0

Init ==
    /\ platform \in Platforms
    /\ secretToken \in BOOLEAN
    /\ repository \in Repositories
    /\ gitTags \in TagLists
    /\ run = 1
    /\ pc = "start"
    /\ ownerRepo = <<>>
    /\ assetName = [stem |-> "", exts |-> <<>>]
    /\ otpVersions = <<>>
    /\ idx = 1
    /\ release = 0
    /\ savedCwd = "root"
    /\ cwd = "root"
    /\ wtPatches = <<>>
    /\ files = NoFiles
    /\ releases = {}
    /\ assets = [r \in {} |-> <<>>]
    /\ nextId = 1
    /\ uploads = {}
    /\ errorLog = <<>>
    /\ infoLog = <<>>
    /\ failed = FALSE
    /\ unhandled = {}
    /\ cur = NewCur
    /\ patchLog = <<>>
    /\ stageLog = <<>>
    /\ done = <<>>
    /\ atStart = [releases |-> {}, assets |-> [r \in {} |-> <<>>],
                  complete |-> FALSE]
    /\ resolutions = [i \in 1..Len(gitTags) |-> <<>>]
    /\ faults = 0
    /\ resolvers = <<>>

(***************************************************************************)
(* run(): what precedes the loop (index.ts 36-43).                          *)
(***************************************************************************)
\* a collaborator fails: a process exits non-zero, a request is answered 500
Fault == faults < MaxFaults /\ faults' = faults + 1

\* what no step of the loop body changes
fixed ==
    <<inputs, run, ownerRepo, assetName, otpVersions, failed, atStart, resolvers>>

\* a loop that ends at once, whatever is left of the list
IterateNever(i, tags) == pc' = "drain" /\ UNCHANGED infoLog

\* the head of the for loop at position i: info(`Starting ...`) and the call
\* of setup, or the end of run()
Iterate(i, tags) ==
    IF i <= Len(tags)
    THEN /\ infoLog' = Append(infoLog, tags[i])
         /\ pc' = "reset"
    ELSE /\ pc' = "drain"
         /\ UNCHANGED infoLog

\* getInput, new GitHub(secretToken), env.GITHUB_REPOSITORY.split("/"):
\* the constructor throws without a token, and split throws on undefined
Configure ==
    /\ pc = "start"
    /\ IF ~secretToken \/ ~repository.defined
       THEN /\ failed' = TRUE
            /\ pc' = "drain"
            /\ UNCHANGED ownerRepo
       ELSE /\ ownerRepo' = SplitSlash(repository.val)
            /\ pc' = "getAssetName"
            /\ UNCHANGED failed
    /\ UNCHANGED <<inputs, resolvers, run, assetName, otpVersions, loopState, savedCwd,
                   tree, registry, uploads, unhandled, atStart, resolutions,
                   faults>>

\* getAssetName(): exec("uname") rejects on a non-zero exit
GetAssetName ==
    /\ pc = "getAssetName"
    /\ \/ /\ assetName' = AssetNameOf(platform)
          /\ pc' = "getOTPVersions"
          /\ UNCHANGED <<failed, faults>>
       \/ /\ Fault
          /\ failed' = TRUE
          /\ pc' = "drain"
          /\ UNCHANGED assetName
    /\ UNCHANGED <<inputs, resolvers, run, ownerRepo, otpVersions, loopState, savedCwd,
                   tree, registry, uploads, unhandled, atStart, resolutions>>

\* getOTPVersions(pattern): the lines `git tag --list` prints, in order;
\* then the loop starts
GetOTPVersions ==
    /\ pc = "getOTPVersions"
    /\ \/ /\ otpVersions' = gitTags
          /\ Iterate(1, gitTags)
          /\ UNCHANGED <<failed, faults>>
       \/ /\ Fault
          /\ failed' = TRUE
          /\ pc' = "drain"
          /\ UNCHANGED <<otpVersions, infoLog>>
    /\ UNCHANGED <<inputs, resolvers, run, ownerRepo, assetName, idx, release, errorLog,
                   cur, patchLog, stageLog, done, savedCwd, tree, registry,
                   uploads, unhandled, atStart, resolutions>>

(***************************************************************************)
(* The loop of run() (index.ts 48-65).                                      *)
(***************************************************************************)
\* the loop body is left for the version at idx, and the loop goes on
EndVersion(c, result, cause) ==
    /\ done' = Append(done, [c EXCEPT !.result = result, !.cause = cause])
    /\ cur' = NewCur
    /\ patchLog' = <<>>
    /\ stageLog' = <<>>
    /\ release' = 0
    /\ idx' = idx + 1
    /\ Iterate(idx + 1, otpVersions)

\* the catch clause of the loop body: error() names the version
Catch(c, byCollaborator) ==
    /\ errorLog' = Append(errorLog, otpVersions[idx])
    /\ IF byCollaborator THEN Fault ELSE UNCHANGED faults
    /\ EndVersion(c, "failed", IF byCollaborator THEN "collaborator" ELSE "forced")

\* the end of the try block
Finish(c, result) ==
    /\ EndVersion(c, result, "none")
    /\ UNCHANGED <<errorLog, faults>>

\* the next statement of the loop body
Advance(c, next) ==
    /\ cur' = c
    /\ pc' = next
    /\ UNCHANGED <<idx, errorLog, infoLog, done, faults>>

(***************************************************************************)
(* setup(otpVersion) (index.ts 29-33).                                      *)
(***************************************************************************)
\* git reset --hard --quiet: the tracked files lose their patches
GitReset ==
    /\ pc = "reset"
    /\ \/ /\ wtPatches' = <<>>
          /\ Advance(cur, "checkout")
          /\ UNCHANGED <<release, patchLog, stageLog>>
       \/ /\ Catch(cur, TRUE)
          /\ UNCHANGED wtPatches
    /\ UNCHANGED <<fixed, savedCwd, cwd, files, registry, uploads, unhandled,
                   resolutions>>

\* git checkout --quiet otpVersion
GitCheckout ==
    /\ pc = "checkout"
    /\ \/ /\ Advance(cur, "clean")
          /\ UNCHANGED <<release, patchLog, stageLog>>
       \/ Catch(cur, TRUE)
    /\ UNCHANGED <<fixed, savedCwd, tree, registry, uploads, unhandled,
                   resolutions>>

\* what git clean -dfqx leaves of the build output: it removes the untracked
\* files below the directory it runs in
CleanFiles(dir, fs) == IF dir = "root" THEN NoFiles ELSE fs

GitClean ==
    /\ pc = "clean"
    /\ \/ /\ files' = CleanFiles(cwd, files)
          /\ Advance(cur, "getRelease")
          /\ UNCHANGED <<release, patchLog, stageLog>>
       \/ /\ Catch(cur, TRUE)
          /\ UNCHANGED files
    /\ UNCHANGED <<fixed, savedCwd, cwd, wtPatches, registry, uploads, unhandled,
                   resolutions>>

(***************************************************************************)
(* The registry client: getOrCreateRelease and getAsset.                    *)
(***************************************************************************)
\* the statuses the registry can answer a lookup by tag with; a request
\* without a repository name finds nothing
LookupStatuses(rels, tag, parts) ==
    IF Len(parts) < 2 THEN {400, 404}
    ELSE IF ReleaseOf(rels, tag) # 0 THEN {200, 500}
    ELSE {404, 500}

\* the statuses the registry can answer a create-release call with
CreateStatuses(rels, tag, parts) ==
    IF Len(parts) < 2 THEN {404}
    ELSE IF ReleaseOf(rels, tag) # 0 THEN {422}
    ELSE {201, 500}

\* a catch clause that swallows every error of the lookup
GetReleaseCatchAny(status) == "undefined"

\* a getRelease that drops the release it has found
GetReleaseResultDropped(status, id) ==
    [kind |-> IF status \in {200, 404} THEN "undefined" ELSE "throw", id |-> 0]

\* the catch clause of getRelease: if (e?.status !== 404) throw ...; return undefined
GetReleaseCatch(status) == IF status # 404 THEN "throw" ELSE "undefined"

\* getRelease: .then(...) gives the [id, upload_url] of a 200, .catch(...) the rest
GetReleaseResult(status, id) ==
    IF status = 200 THEN [kind |-> "value", id |-> id]
    ELSE [kind |-> GetReleaseCatch(status), id |-> 0]

Resolved(existed, ret, creates) ==
    resolutions' =
        [resolutions EXCEPT ![idx] =
            Append(@, [existed |-> existed, ret |-> ret, creates |-> creates])]

\* getRelease, the left operand of getOrCreateRelease
GetRelease ==
    /\ pc = "getRelease"
    /\ LET tag == otpVersions[idx]
           existed == ReleaseOf(releases, tag) # 0
       IN  \E status \in LookupStatuses(releases, tag, ownerRepo) :
             LET c == [cur EXCEPT !.lookup = status]
                 r == GetReleaseResult(status, ReleaseOf(releases, tag))
             IN  IF r.kind = "value"
                 THEN /\ release' = r.id
                      /\ Resolved(existed, r.id, 0)
                      /\ Advance(c, "getAsset")
                      /\ UNCHANGED <<patchLog, stageLog>>
                 ELSE IF r.kind = "undefined"
                 THEN /\ Advance(c, "createRelease")
                      /\ UNCHANGED <<release, resolutions, patchLog, stageLog>>
                 ELSE /\ Catch(c, status = 500)
                      /\ Resolved(existed, 0, 0)
    /\ UNCHANGED <<fixed, savedCwd, tree, registry, uploads, unhandled>>

\* createRelease, the right operand of getOrCreateRelease
CreateRelease ==
    /\ pc = "createRelease"
    /\ LET tag == otpVersions[idx]
           existed == ReleaseOf(releases, tag) # 0
           c == [cur EXCEPT !.creates = @ + 1]
       IN  \E status \in CreateStatuses(releases, tag, ownerRepo) :
             IF status = 201
             THEN /\ releases' = releases \cup {[tag |-> tag, id |-> nextId]}
                  /\ assets' = assets @@ (nextId :> <<>>)
                  /\ nextId' = nextId + 1
                  /\ release' = nextId
                  /\ Resolved(existed, nextId, 1)
                  /\ Advance([c EXCEPT !.created = nextId], "getAsset")
                  /\ UNCHANGED <<patchLog, stageLog>>
             ELSE /\ Catch(c, status = 500)
                  /\ Resolved(existed, 0, 1)
                  /\ UNCHANGED registry
    /\ UNCHANGED <<fixed, savedCwd, tree, uploads, unhandled>>

\* a test that builds whatever getAsset returns
ShouldBuildAlways(assetId) == TRUE

\* a maybePatch without the platform test
MaybePatchEntryAnywhere(plat) == "maybePatchDarwin"

\* if (!assetId): 0 stands for undefined
ShouldBuild(assetId) == assetId = 0

\* maybePatch: the darwin rules run only on darwin
MaybePatchEntry(plat) ==
    IF plat = "darwin" THEN "maybePatchDarwin" ELSE "maybePatchAll"

\* getAsset and the test of its result (index.ts 53-54)
GetAsset ==
    /\ pc = "getAsset"
    /\ \/ LET id == FindAsset(AssetsOf(assets, release), assetName)
              c == [cur EXCEPT !.asset = IF id = 0 THEN "absent" ELSE "found",
                               !.assetId = id]
          IN  IF ShouldBuild(id)
              THEN /\ Advance(c, MaybePatchEntry(platform))
                   /\ UNCHANGED <<release, patchLog, stageLog>>
              ELSE Finish(c, "skipped")
       \/ Catch(cur, TRUE)
    /\ UNCHANGED <<fixed, savedCwd, tree, registry, uploads, unhandled,
                   resolutions>>

(***************************************************************************)
(* makeAsset: maybePatch, make, archive, sha256.                            *)
(***************************************************************************)
\* the exits of a tool that works on paths relative to the working
\* directory (patch -p1, ./otp_build, ./configure, make): outside the root
\* of the checkout it does not find them
ExecExits(dir) == IF dir = "root" THEN {"ok", "fail"} ELSE {"fail"}

\* [major, minor, ...rest] of the version the loop is at
Version == ParseVersion(otpVersions[idx])

\* one of maybePatchDarwin, maybePatchCatalina, maybePatchAll: when its
\* condition holds, exec("patch", ...) with its diff
PatchStep(at, cond, patch, next) ==
    /\ pc = at
    /\ LET c == [cur EXCEPT !.worked = TRUE]
       IN  IF cond
           THEN \E exit \in ExecExits(cwd) :
                  IF exit = "ok"
                  THEN /\ wtPatches' = Append(wtPatches, patch)
                       /\ patchLog' = Append(patchLog, patch)
                       /\ Advance(c, next)
                       /\ UNCHANGED <<release, stageLog>>
                  ELSE /\ Catch(c, cwd = "root")
                       /\ UNCHANGED wtPatches
           ELSE /\ Advance(cur, next)
                /\ UNCHANGED <<wtPatches, release, patchLog, stageLog>>
    /\ UNCHANGED <<fixed, savedCwd, cwd, files, registry, uploads, unhandled,
                   resolutions>>

MaybePatchDarwin ==
    PatchStep("maybePatchDarwin",
              MaybePatchDarwinCond(Version.major, Version.minor, Version.rest),
              "wxptr", "maybePatchCatalina")

MaybePatchCatalina ==
    PatchStep("maybePatchCatalina",
              MaybePatchCatalinaCond(Version.major, Version.minor, Version.rest),
              "catalina", "maybePatchAll")

MaybePatchAll ==
    PatchStep("maybePatchAll",
              MaybePatchAllCond(Version.major, Version.minor, Version.rest),
              "zlib", "make")

\* make(): on darwin, exec("brew", ["--prefix", "openssl"]) gives the ssl option
MakeSslOption ==
    /\ pc = "make"
    /\ IF platform = "darwin"
       THEN \/ /\ stageLog' = Append(stageLog, "brew")
               /\ Advance([cur EXCEPT !.worked = TRUE], "otp_build")
               /\ UNCHANGED <<release, patchLog>>
            \/ Catch([cur EXCEPT !.worked = TRUE], TRUE)
       ELSE /\ Advance(cur, "otp_build")
            /\ UNCHANGED <<release, patchLog, stageLog>>
    /\ UNCHANGED <<fixed, savedCwd, tree, registry, uploads, unhandled,
                   resolutions>>

\* one group(...) of make(): an exec whose non-zero exit rejects
BuildStage(at, next) ==
    /\ pc = at
    /\ LET c == [cur EXCEPT !.worked = TRUE]
       IN  \E exit \in ExecExits(cwd) :
             IF exit = "ok"
             THEN /\ stageLog' = Append(stageLog, at)
                  /\ files' = [files EXCEPT !["build"] =
                                  [exists |-> TRUE, src |-> otpVersions[idx],
                                   text |-> <<>>]]
                  /\ Advance(c, next)
                  /\ UNCHANGED <<release, patchLog>>
             ELSE /\ Catch(c, cwd = "root")
                  /\ UNCHANGED files
    /\ UNCHANGED <<fixed, savedCwd, cwd, wtPatches, registry, uploads, unhandled,
                   resolutions>>

\* a bootstrap that goes on with the compilation
OtpBuildThenCompile == BuildStage("otp_build", "compile")

OtpBuild == BuildStage("otp_build", "configure")
ConfigureBuild == BuildStage("configure", "compile")
Compile == BuildStage("compile", "makeRelease")
MakeRelease == BuildStage("makeRelease", "archive")

\* a test that only asks for some sub directory
ArchiveCheckSome(n) == IF n < 1 THEN "none" ELSE "one"

\* the test of subDirectories.length in archive()
ArchiveCheck(n) == IF n < 1 THEN "none" ELSE IF 1 < n THEN "many" ELSE "one"

\* archive(): up to chdir(subDirectory)
Archive ==
    /\ pc = "archive"
    /\ \E n \in 0..MaxSubDirs :
         LET c == [cur EXCEPT !.subdirs = n]
         IN  IF ArchiveCheck(n) = "one"
             THEN /\ savedCwd' = cwd
                  /\ cwd' = "sub"
                  /\ Advance(c, "tar")
                  /\ UNCHANGED <<release, patchLog, stageLog>>
             ELSE /\ Catch(c, TRUE)
                  /\ UNCHANGED <<savedCwd, cwd>>
    /\ UNCHANGED <<fixed, wtPatches, files, registry, uploads, unhandled,
                   resolutions>>

\* archive(): exec("tar", ...) and chdir(currentWorkingDirectory)
Tar ==
    /\ pc = "tar"
    /\ \/ /\ files' = [files EXCEPT !["archive"] =
                          [exists |-> TRUE, src |-> otpVersions[idx], text |-> <<>>]]
          /\ cwd' = savedCwd
          /\ stageLog' = Append(stageLog, "tar")
          /\ Advance([cur EXCEPT !.tars = @ + 1,
                                  !.archived = JoinPath(savedCwd, assetName)],
                     "sha256")
          /\ UNCHANGED <<release, patchLog>>
       \/ /\ Catch([cur EXCEPT !.tars = @ + 1], TRUE)
          /\ UNCHANGED <<files, cwd>>
    /\ UNCHANGED <<fixed, savedCwd, wtPatches, registry, uploads, unhandled,
                   resolutions>>

\* what shasum prints: the digest, two spaces, the path; or nothing
ShasumOutputs == { <<"d", " ", " ", "p">>, <<>> }

RECURSIVE FirstToken(_)
\* buffer.split(" ", 1)[0]
FirstToken(line) ==
    IF line = <<>> \/ Head(line) = " " THEN <<>>
    ELSE <<Head(line)>> \o FirstToken(Tail(line))

\* sha256(archivedPath): exec("shasum", ...) and writeFileSync
Sha256 ==
    /\ pc = "sha256"
    /\ \/ \E line \in ShasumOutputs :
            /\ files' = [files EXCEPT !["sha"] =
                            [exists |-> TRUE, src |-> files["archive"].src,
                             text |-> FirstToken(line)]]
            /\ stageLog' = Append(stageLog, "shasum")
            /\ Advance(cur, "uploadAssets")
            /\ UNCHANGED <<release, patchLog>>
       \/ /\ Catch(cur, TRUE)
          /\ UNCHANGED files
    /\ UNCHANGED <<fixed, savedCwd, cwd, wtPatches, registry, uploads, unhandled,
                   resolutions>>

(***************************************************************************)
(* uploadAssets and uploadAsset.                                            *)
(***************************************************************************)
\* path.basename(assetPath) of the two paths makeAsset returns
UploadName(kind, name) == IF kind = "archive" THEN name ELSE Sha256FileName(name)

\* uploadAssets(octokit, uploadUrl, [archivedPath, sha256Path]): each call of
\* uploadAsset runs statSync and createReadStream and starts the request; the
\* callback given to map returns nothing, so Promise.all settles at once and
\* the try block ends while both requests are in flight
UploadAssets ==
    /\ pc = "uploadAssets"
    /\ uploads' = uploads \cup
          { [ver |-> idx, rel |-> release, kind |-> k,
             name |-> UploadName(k, assetName), st |-> "created", data |-> NoFile] :
            k \in {"archive", "sha"} }
    /\ Finish([cur EXCEPT !.uploads = @ + 2], "built")
    /\ UNCHANGED <<fixed, savedCwd, tree, registry, unhandled, resolutions>>

\* a rejection of the promise of uploadAsset: nothing awaits it
Reject(u, status) ==
    /\ uploads' = uploads \ {u}
    /\ unhandled' = unhandled \cup {[ver |-> u.ver, kind |-> u.kind, status |-> status]}

\* the read stream opens its file: the file now at the path, if any
UploadOpen(u) ==
    /\ u.st = "created"
    /\ IF files[u.kind].exists
       THEN /\ uploads' = (uploads \ {u}) \cup
                            {[u EXCEPT !.st = "open", !.data = files[u.kind]]}
            /\ UNCHANGED unhandled
       ELSE Reject(u, 0)
    /\ UNCHANGED <<fixed, pc, loopState, savedCwd, tree, registry, resolutions,
                   faults>>

\* the statuses the registry can answer an upload with: a release holds one
\* asset of a name
UploadStatuses(as, rel, name) ==
    IF AssetNamed(AssetsOf(as, rel), name) # 0 THEN {422} ELSE {201, 500}

\* the request of uploadReleaseAsset settles
UploadSettle(u) ==
    /\ u.st = "open"
    /\ \E status \in UploadStatuses(assets, u.rel, u.name) :
         IF status = 201
         THEN /\ assets' = [assets EXCEPT ![u.rel] =
                                Append(@, [id |-> Len(@) + 1, name |-> u.name,
                                           content |-> u.data])]
              /\ uploads' = uploads \ {u}
              /\ UNCHANGED <<unhandled, faults>>
         ELSE /\ Reject(u, status)
              /\ IF status = 500 THEN Fault ELSE UNCHANGED faults
              /\ UNCHANGED assets
    /\ UNCHANGED <<fixed, pc, loopState, savedCwd, tree, releases, nextId,
                   resolutions>>

(***************************************************************************)
(* The end of a run, and the next run against the same registry.            *)
(***************************************************************************)
\* the process ends when run() has returned and no request is pending
Drain ==
    /\ pc = "drain"
    /\ uploads = {}
    /\ pc' = "exit"
    /\ UNCHANGED <<fixed, loopState, savedCwd, tree, registry, uploads,
                   unhandled, resolutions, faults>>

\* the action runs again, on a fresh checkout, with the same inputs
StartRun ==
    /\ pc = "exit"
    /\ run < MaxRuns
    /\ run' = run + 1
    /\ atStart' = [releases |-> releases, assets |-> assets,
                   complete |-> /\ ~failed
                                /\ \A i \in 1..Len(otpVersions) :
                                     Published(releases, assets, otpVersions[i],
                                               assetName)]
    /\ pc' = "start"
    /\ ownerRepo' = <<>>
    /\ assetName' = [stem |-> "", exts |-> <<>>]
    /\ otpVersions' = <<>>
    /\ idx' = 1
    /\ release' = 0
    /\ savedCwd' = "root"
    /\ cwd' = "root"
    /\ wtPatches' = <<>>
    /\ files' = NoFiles
    /\ errorLog' = <<>>
    /\ infoLog' = <<>>
    /\ failed' = FALSE
    /\ unhandled' = {}
    /\ cur' = NewCur
    /\ patchLog' = <<>>
    /\ stageLog' = <<>>
    /\ done' = <<>>
    /\ UNCHANGED <<inputs, resolvers, registry, uploads, resolutions, faults>>

Next ==
    \/ Configure
    \/ GetAssetName
    \/ GetOTPVersions
    \/ GitReset
    \/ GitCheckout
    \/ GitClean
    \/ GetRelease
    \/ CreateRelease
    \/ GetAsset
    \/ MaybePatchDarwin
    \/ MaybePatchCatalina
    \/ MaybePatchAll
    \/ MakeSslOption
    \/ OtpBuild
    \/ ConfigureBuild
    \/ Compile
    \/ MakeRelease
    \/ Archive
    \/ Tar
    \/ Sha256
    \/ UploadAssets
    \/ \E u \in uploads : UploadOpen(u)
    \/ \E u \in uploads : UploadSettle(u)
    \/ Drain

\* one run of the action
Spec == Init /\ [][Next]_vars

(***************************************************************************)
(* Repeated runs against the same registry, for a pattern that selects at   *)
(* most one tag.                                                            *)
(***************************************************************************)
InitRuns == Init /\ Len(gitTags) <= 1

NextRuns == Next \/ StartRun

SpecRuns == InitRuns /\ [][NextRuns]_vars

(***************************************************************************)
(* The patch selection on its own: makeAsset is entered for the only tag    *)
(* of a run, its release just created in an empty registry.                 *)
(***************************************************************************)
InitPatch ==
    /\ platform \in Platforms
    /\ secretToken = TRUE
    /\ repository = [defined |-> TRUE, val |-> <<"o", "/", "r">>]
    /\ gitTags \in { <<t>> : t \in PatchTags }
    /\ run = 1
    /\ pc = MaybePatchEntry(platform)
    /\ ownerRepo = SplitSlash(repository.val)
    /\ assetName = AssetNameOf(platform)
    /\ otpVersions = gitTags
    /\ idx = 1
    /\ release = 1
    /\ savedCwd = "root"
    /\ cwd = "root"
    /\ wtPatches = <<>>
    /\ files = NoFiles
    /\ releases = {[tag |-> gitTags[1], id |-> 1]}
    /\ assets = (1 :> <<>>)
    /\ nextId = 2
    /\ uploads = {}
    /\ errorLog = <<>>
    /\ infoLog = gitTags
    /\ failed = FALSE
    /\ unhandled = {}
    /\ cur = [NewCur EXCEPT !.lookup = 404, !.creates = 1, !.created = 1,
                            !.asset = "absent"]
    /\ patchLog = <<>>
    /\ stageLog = <<>>
    /\ done = <<>>
    /\ atStart = [releases |-> {}, assets |-> [r \in {} |-> <<>>],
                  complete |-> FALSE]
    /\ resolutions = << <<[existed |-> FALSE, ret |-> 1, creates |-> 1]>> >>
    /\ faults = 0
    /\ resolvers = <<>>

NextPatch ==
    \/ MaybePatchDarwin
    \/ MaybePatchCatalina
    \/ MaybePatchAll

SpecPatch == InitPatch /\ [][NextPatch]_vars

(***************************************************************************)
(* getAsset on its own: the loop body is at getAsset for the only tag of a  *)
(* run, and the registry answers with whatever asset list its release has.  *)
(***************************************************************************)
\* names an asset of a release can have: the archives of the two platforms,
\* one spelled with a capital, and a checksum file
AssetNames ==
    { AssetNameOf(plat) : plat \in Platforms } \cup
    { [stem |-> "Linux-5.4.0", exts |-> <<".tar.gz">>],
      Sha256FileName(AssetNameOf("linux")) }

\* the asset lists of at most MaxAssets assets, ids in list order
AssetLists ==
    UNION { { [k \in 1..n |-> [id |-> k, name |-> names[k], content |-> NoFile]] :
              names \in [1..n -> AssetNames] } : n \in 0..MaxAssets }

InitFind ==
    /\ platform \in Platforms
    /\ secretToken = TRUE
    /\ repository = [defined |-> TRUE, val |-> <<"o", "/", "r">>]
    /\ gitTags = <<RepoTags[1]>>
    /\ run = 1
    /\ pc = "getAsset"
    /\ ownerRepo = SplitSlash(repository.val)
    /\ assetName = AssetNameOf(platform)
    /\ otpVersions = gitTags
    /\ idx = 1
    /\ release = 1
    /\ savedCwd = "root"
    /\ cwd = "root"
    /\ wtPatches = <<>>
    /\ files = NoFiles
    /\ releases = {[tag |-> gitTags[1], id |-> 1]}
    /\ assets \in { (1 :> list) : list \in AssetLists }
    /\ nextId = 2
    /\ uploads = {}
    /\ errorLog = <<>>
    /\ infoLog = gitTags
    /\ failed = FALSE
    /\ unhandled = {}
    /\ cur = [NewCur EXCEPT !.lookup = 200]
    /\ patchLog = <<>>
    /\ stageLog = <<>>
    /\ done = <<>>
    /\ atStart = [releases |-> {}, assets |-> [r \in {} |-> <<>>],
                  complete |-> FALSE]
    /\ resolutions = << <<[existed |-> TRUE, ret |-> 1, creates |-> 0]>> >>
    /\ faults = 0
    /\ resolvers = <<>>

NextFind == GetAsset

SpecFind == InitFind /\ [][NextFind]_vars

(***************************************************************************)
(* getOrCreateRelease in several runs at once: the action runs on several   *)
(* machines for the same tag, which has no release yet, against the same    *)
(* registry.                                                                *)
(***************************************************************************)
Racers == 1..MaxRacers

\* what a run outside getOrCreateRelease leaves alone
raceFrame ==
    <<inputs, run, pc, ownerRepo, assetName, otpVersions, loopState, savedCwd,
      tree, uploads, failed, unhandled, atStart, resolutions>>

InitRace ==
    /\ platform = "linux"
    /\ secretToken = TRUE
    /\ repository = [defined |-> TRUE, val |-> <<"o", "/", "r">>]
    /\ gitTags \in { <<RepoTags[k]>> : k \in 1..Len(RepoTags) }
    /\ run = 1
    /\ pc = "getRelease"
    /\ ownerRepo = SplitSlash(repository.val)
    /\ assetName = AssetNameOf(platform)
    /\ otpVersions = gitTags
    /\ idx = 1
    /\ release = 0
    /\ savedCwd = "root"
    /\ cwd = "root"
    /\ wtPatches = <<>>
    /\ files = NoFiles
    /\ releases = {}
    /\ assets = [r \in {} |-> <<>>]
    /\ nextId = 1
    /\ uploads = {}
    /\ errorLog = <<>>
    /\ infoLog = gitTags
    /\ failed = FALSE
    /\ unhandled = {}
    /\ cur = NewCur
    /\ patchLog = <<>>
    /\ stageLog = <<>>
    /\ done = <<>>
    /\ atStart = [releases |-> {}, assets |-> [r \in {} |-> <<>>],
                  complete |-> FALSE]
    /\ resolutions = << <<>> >>
    /\ faults = 0
    /\ resolvers = [p \in Racers |->
                      [pc |-> "getRelease", ret |-> 0, lookup |-> 0, status |-> 0]]

\* getRelease in the run p
RaceGetRelease(p) ==
    /\ resolvers[p].pc = "getRelease"
    /\ LET tag == otpVersions[1]
       IN  \E status \in LookupStatuses(releases, tag, ownerRepo) :
             LET r == GetReleaseResult(status, ReleaseOf(releases, tag))
                 at == [resolvers[p] EXCEPT !.lookup = status]
             IN  /\ resolvers' =
                       [resolvers EXCEPT ![p] =
                           IF r.kind = "value"
                           THEN [at EXCEPT !.pc = "returned", !.ret = r.id]
                           ELSE IF r.kind = "undefined"
                           THEN [at EXCEPT !.pc = "createRelease"]
                           ELSE [at EXCEPT !.pc = "thrown"]]
                 /\ IF status = 500 THEN Fault ELSE UNCHANGED faults
    /\ UNCHANGED <<raceFrame, registry>>

\* createRelease in the run p
RaceCreateRelease(p) ==
    /\ resolvers[p].pc = "createRelease"
    /\ LET tag == otpVersions[1]
       IN  \E status \in CreateStatuses(releases, tag, ownerRepo) :
             LET at == [resolvers[p] EXCEPT !.status = status]
             IN  IF status = 201
                 THEN /\ releases' = releases \cup {[tag |-> tag, id |-> nextId]}
                      /\ assets' = assets @@ (nextId :> <<>>)
                      /\ nextId' = nextId + 1
                      /\ resolvers' = [resolvers EXCEPT ![p] =
                                          [at EXCEPT !.pc = "returned", !.ret = nextId]]
                      /\ UNCHANGED faults
                 ELSE /\ resolvers' = [resolvers EXCEPT ![p] =
                                          [at EXCEPT !.pc = "thrown"]]
                      /\ IF status = 500 THEN Fault ELSE UNCHANGED faults
                      /\ UNCHANGED registry
    /\ UNCHANGED raceFrame

NextRace ==
    \/ \E p \in Racers : RaceGetRelease(p)
    \/ \E p \in Racers : RaceCreateRelease(p)

SpecRace == InitRace /\ [][NextRace]_vars

(***************************************************************************)
(* Properties.                                                              *)
(***************************************************************************)
Range(q) == { q[i] : i \in 1..Len(q) }

\* the positions of run() inside makeAsset and uploadAssets
PipelinePcs ==
    {"maybePatchDarwin", "maybePatchCatalina", "maybePatchAll", "make",
     "otp_build", "configure", "compile", "makeRelease", "archive", "tar",
     "sha256", "uploadAssets"}

\* an upload of the version at position i was rejected
UploadFault(i) == \E r \in unhandled : r.ver = i

\* C1: when the run is over, every version that neither a failing stage
\* (checkout, release resolution, asset listing, patch, build, archive, checksum)
\* nor a rejected upload has its asset in the registry, whatever happened to
\* the versions before it, and every version that failed is named in the
\* error log.
C1_FailureIsolation ==
    (pc = "exit" /\ ~failed /\ Len(ownerRepo) = 2) =>
        \A i \in 1..Len(done) :
            /\ done[i].result = "failed" => otpVersions[i] \in Range(errorLog)
            /\ (done[i].cause # "collaborator" /\ ~UploadFault(i)) =>
                   Published(releases, assets, otpVersions[i], assetName)

\* C2: a run that starts with every selected version published creates no
\* release, applies no patch, runs no build tool, uploads nothing and leaves
\* the registry as it found it.
C2_IdempotentPublish ==
    (run >= 2 /\ atStart.complete) =>
        /\ releases = atStart.releases
        /\ assets = atStart.assets
        /\ uploads = {}
        /\ unhandled = {}
        /\ patchLog = <<>>
        /\ stageLog = <<>>
        /\ wtPatches = <<>>
        /\ files = NoFiles
        /\ \A c \in {cur} \cup Range(done) :
              c.creates = 0 /\ ~c.worked /\ c.uploads = 0

C2_Witness ==
    /\ run >= 2
    /\ atStart.complete
    /\ pc = "exit"
    /\ done # <<>>
    /\ done[1].result = "skipped"

\* C3: a version whose asset getAsset finds is left without any patch, build,
\* archive, checksum or upload; a version whose asset is absent enters the
\* build pipeline.
C3_SkipRule ==
    /\ cur.asset # "absent" =>
          pc \notin PipelinePcs /\ ~cur.worked /\ cur.uploads = 0
    /\ cur.asset = "absent" => pc \in PipelinePcs
    /\ \A i \in 1..Len(done) :
          /\ done[i].asset = "found" =>
                /\ done[i].result = "skipped"
                /\ ~done[i].worked
                /\ done[i].uploads = 0
                /\ \A u \in uploads : u.ver # i
          /\ done[i].asset = "absent" => done[i].worked

C3_Witness ==
    /\ done # <<>>
    /\ done[1].asset = "found"
    /\ done[1].result = "skipped"
    /\ run >= 2

\* C4: of two consecutive getOrCreateRelease calls for a tag that both
\* return, the second returns the id the first returned and together they
\* make at most one create-release call; a call that finds the release
\* makes none.
C4_ResolveTwice ==
    \A i \in DOMAIN resolutions :
        /\ \A k \in 1..Len(resolutions[i]) :
              resolutions[i][k].existed => resolutions[i][k].creates = 0
        /\ \A k \in 1..(Len(resolutions[i]) - 1) :
              LET a == resolutions[i][k]
                  b == resolutions[i][k + 1]
              IN  (a.ret # 0 /\ b.ret # 0) =>
                      a.ret = b.ret /\ a.creates + b.creates <= 1

C4_Witness ==
    /\ 1 \in DOMAIN resolutions
    /\ Len(resolutions[1]) >= 2
    /\ resolutions[1][1].creates = 1
    /\ resolutions[1][1].ret # 0
    /\ resolutions[1][2].ret = resolutions[1][1].ret

\* C5: a lookup answered 404 is followed by exactly one create-release call,
\* whose release is the one the loop body goes on with; a lookup that fails
\* otherwise is followed by no create-release call, and its version ends
\* failed and logged without asset listing, build or upload.
C5_NotFoundCreates ==
    /\ cur.lookup # 404 => cur.creates = 0
    /\ (cur.lookup = 404 /\ pc = "createRelease") => cur.creates = 0
    /\ (cur.lookup = 404 /\ pc # "createRelease") =>
          /\ cur.creates = 1
          /\ release # 0
          /\ release = cur.created
          /\ [tag |-> otpVersions[idx], id |-> release] \in releases
    /\ \A i \in 1..Len(done) :
          /\ done[i].lookup = 404 => done[i].creates = 1
          /\ done[i].lookup \notin {0, 200, 404} =>
                /\ done[i].creates = 0
                /\ done[i].result = "failed"
                /\ otpVersions[i] \in Range(errorLog)
                /\ done[i].asset = "unchecked"
                /\ ~done[i].worked
                /\ done[i].uploads = 0

C5_Witness ==
    /\ pc = "exit"
    /\ \E i, j \in 1..Len(done) :
          /\ done[i].lookup = 500
          /\ done[i].result = "failed"
          /\ done[j].lookup = 404
          /\ done[j].created # 0

Tag22_3_1 == OtpTag(<< <<"2", "2">>, <<"3">>, <<"1">> >>)
Tag22_3_0 == OtpTag(<< <<"2", "2">>, <<"3">>, <<"0">> >>)
Tag23_0 == OtpTag(<< <<"2", "3">>, <<"0">> >>)
Tag19_2 == OtpTag(<< <<"1", "9">>, <<"2">> >>)

\* C6: when the patches of a version have been selected, the Catalina patch
\* is not among those of 22.3.1 on darwin, is among those of 22.3.0 on
\* darwin, and is not among those of 23.0 on any platform.
C6_CatalinaBoundary ==
    pc = "make" =>
        /\ (platform = "darwin" /\ otpVersions[idx] = Tag22_3_1) =>
               "catalina" \notin Range(patchLog)
        /\ (platform = "darwin" /\ otpVersions[idx] = Tag22_3_0) =>
               "catalina" \in Range(patchLog)
        /\ otpVersions[idx] = Tag23_0 => "catalina" \notin Range(patchLog)

\* the patches C7 names for a platform and a version, in its order; a
\* comparison with a component that is not a number is false
ClaimedPatches(plat, v) ==
    LET isNum(a) == a.t = "num"
        from17to19 == isNum(v.major) /\ 17 <= v.major.v /\ v.major.v <= 19
        catalina ==
            \/ isNum(v.major) /\ 19 < v.major.v /\ v.major.v < 23
            \/ /\ isNum(v.major) /\ v.major.v = 19
               /\ isNum(v.minor) /\ 1 < v.minor.v
            \/ /\ isNum(v.major) /\ v.major.v = 22
               /\ isNum(v.minor) /\ v.minor.v = 3
               /\ v.rest # <<>> /\ isNum(v.rest[1]) /\ v.rest[1].v < 1
    IN  (IF plat = "darwin" /\ from17to19 THEN <<"wxptr">> ELSE <<>>)
        \o (IF plat = "darwin" /\ catalina THEN <<"catalina">> ELSE <<>>)
        \o (IF from17to19 THEN <<"zlib">> ELSE <<>>)

\* C7: the patches applied to a version are all those whose condition holds,
\* in the order wx-pointer, Catalina, zlib; off darwin neither of the darwin
\* patches is ever applied.
C7_PatchSelection ==
    /\ pc = "make" =>
          patchLog = ClaimedPatches(platform, ParseVersion(otpVersions[idx]))
    /\ platform # "darwin" => Range(patchLog) \subseteq {"zlib"}

C7_Witness ==
    /\ pc = "make"
    /\ platform = "darwin"
    /\ otpVersions[idx] = Tag19_2
    /\ patchLog = <<"wxptr", "catalina", "zlib">>

\* C8: a version one of whose uploads the registry answers with an error
\* ends failed and is named in the error log.
C8_UploadFailureReported ==
    \A r \in unhandled :
        r.status = 500 =>
            /\ otpVersions[r.ver] \in Range(errorLog)
            /\ r.ver <= Len(done) => done[r.ver].result = "failed"

\* C9: while a version is reset, checked out and cleaned, no upload of a
\* version before it is still in flight.
C9_StrictSequencing ==
    pc \in {"reset", "checkout", "clean"} => \A u \in uploads : u.ver >= idx

\* GITHUB_REPOSITORY is set and is not of the form owner/repo
MalformedRepository ==
    repository.defined /\ Len(SplitSlash(repository.val)) # 2

\* C10: the run is marked failed exactly when an error is raised before the
\* loop: a missing or malformed repository identity, no asset name, no tag
\* list; then no version is processed; no version's error marks it failed.
C10_ExitStatus ==
    pc = "exit" =>
        /\ failed => (infoLog = <<>> /\ done = <<>> /\ errorLog = <<>>)
        /\ (~secretToken \/ ~repository.defined \/ MalformedRepository) => failed
        /\ (secretToken /\ repository.defined /\ ~MalformedRepository
              /\ faults = 0) => ~failed

\* the positions of run() before the loop and after it
OutsideLoopPcs == {"start", "getAssetName", "getOTPVersions", "drain", "exit"}

\* the versions are started in the order of the tag list, one at a time, and
\* a run that was not stopped before the loop ends with all of them finished
InOrder ==
    /\ Len(infoLog) <= Len(otpVersions)
    /\ infoLog = SubSeq(otpVersions, 1, Len(infoLog))
    /\ otpVersions \in {<<>>, gitTags}
    /\ Len(done) = idx - 1
    /\ pc \notin OutsideLoopPcs => Len(infoLog) = idx
    /\ (pc \in {"drain", "exit"} /\ ~failed) =>
          /\ infoLog = gitTags
          /\ Len(done) = Len(gitTags)
          /\ \A i \in 1..Len(done) : done[i].result \in {"built", "skipped", "failed"}

\* a run over an empty tag list touches neither the checkout nor the registry
EmptyIsNoOp ==
    gitTags = <<>> =>
        /\ pc \in OutsideLoopPcs
        /\ infoLog = <<>> /\ errorLog = <<>> /\ done = <<>>
        /\ releases = {} /\ uploads = {} /\ unhandled = {}
        /\ files = NoFiles /\ wtPatches = <<>> /\ cwd = "root"
        /\ \A i \in DOMAIN resolutions : resolutions[i] = <<>>

\* the statements of the loop body, in program order
BodyPcs ==
    <<"reset", "checkout", "clean", "getRelease", "createRelease", "getAsset",
      "maybePatchDarwin", "maybePatchCatalina", "maybePatchAll", "make",
      "otp_build", "configure", "compile", "makeRelease", "archive", "tar",
      "sha256", "uploadAssets">>

\* an upper bound of the steps the run can still take: the statements left
\* in the loop body and in the later loop bodies, and the steps of the
\* pending uploads (open, settle)
StepsLeft ==
    LET perVersion == Len(BodyPcs) + 6
        pos == CHOOSE k \in 1..Len(BodyPcs) : BodyPcs[k] = pc
        pending == Cardinality({u \in uploads : u.st = "created"}) * 2
                   + Cardinality({u \in uploads : u.st = "open"})
        ahead ==
            CASE pc = "start" -> Len(gitTags) * perVersion + 5
              [] pc = "getAssetName" -> Len(gitTags) * perVersion + 4
              [] pc = "getOTPVersions" -> Len(gitTags) * perVersion + 3
              [] pc = "drain" -> 1
              [] pc = "exit" -> 0
              [] OTHER -> (Len(otpVersions) - idx) * perVersion
                          + (perVersion - pos) + 2
    IN  ahead + pending

\* before its end the run is at a statement of run() or waits for an upload
\* that can still open its file or settle
NotStuck ==
    pc # "exit" =>
        \/ pc \in {"start", "getAssetName", "getOTPVersions"}
        \/ pc \in Range(BodyPcs) /\ idx \in 1..Len(otpVersions)
        \/ pc = "drain" /\ \A u \in uploads : u.st \in {"created", "open"}

\* C11: the tags are processed in the order git reports them, each once;
\* whatever stages fail, the run is never stuck before its end and every
\* step brings that end nearer, so every version reaches a final state and
\* the loop terminates; an empty tag list gives a run without checkout,
\* registry call, build or upload.
C11_ProgressOrder ==
    /\ [](InOrder /\ EmptyIsNoOp /\ NotStuck)
    /\ [][StepsLeft' < StepsLeft /\ StepsLeft' >= 0]_vars

C11_Witness ==
    /\ pc = "exit"
    /\ Len(done) = 2
    /\ done[1].result = "failed"
    /\ done[2].result = "built"
    /\ infoLog = gitTags

\* the summaries of the versions the run has dealt with so far
Summaries == {cur} \cup Range(done)

\* C12: archive fails without calling tar and without an archive when the
\* release directory holds no or several sub directories; with exactly one,
\* tar is called once there and the path returned is the release directory
\* joined with the asset name.
C12_ArchiveSubDirs ==
    /\ \A c \in Summaries :
          /\ c.subdirs \notin {-1, 1} =>
                c.tars = 0 /\ c.result = "failed" /\ c.archived = NoPath
                /\ c.uploads = 0
          /\ c.subdirs = 1 => c.tars <= 1
          /\ c.tars = 1 => c.subdirs = 1
          /\ c.archived # NoPath =>
                c.tars = 1 /\ c.archived = [dir |-> <<"root", "release">>,
                                             base |-> assetName]
    /\ (cur.subdirs = 1) = (pc \in {"tar", "sha256", "uploadAssets"})
    /\ pc = "tar" => cur.tars = 0 /\ cwd = "sub"
    /\ pc \in {"sha256", "uploadAssets"} =>
          /\ cur.tars = 1
          /\ cur.archived # NoPath
          /\ files["archive"].exists
          /\ files["archive"].src = otpVersions[idx]
    /\ \A i \in 1..Len(done) :
          done[i].subdirs \notin {-1, 1} =>
              ~(files["archive"].exists /\ files["archive"].src = otpVersions[i])

C12_Witness ==
    /\ pc = "exit"
    /\ \E i, j \in 1..Len(done) :
          /\ done[i].subdirs \in {0, MaxSubDirs}
          /\ done[i].result = "failed"
          /\ done[j].subdirs = 1
          /\ done[j].tars = 1
          /\ done[j].result = "built"

\* C13: sha256 fails, and writes no checksum file, when shasum prints no
\* line; otherwise the file holds exactly the first whitespace-delimited token
\* of what shasum printed.
C13_ChecksumContent ==
    /\ files["sha"].exists =>
          files["sha"].text \in { FirstToken(line) : line \in ShasumOutputs \ {<<>>} }
    /\ pc = "uploadAssets" =>
          /\ files["sha"].exists
          /\ files["sha"].text # <<>>
          /\ " " \notin Range(files["sha"].text)

\* the positions of the assets of that name in a list
Matches(list, name) == { k \in 1..Len(list) : list[k].name = name }

\* C14: getAsset returns an id exactly when the list of the release holds an
\* asset of exactly that name, and then the id of the first such asset; the
\* loop body skips the version exactly when an id was returned.
C14_FindAsset ==
    \A c \in Summaries :
        c.asset # "unchecked" =>
            LET list == assets[1]
                at == Matches(list, assetName)
            IN  /\ (c.asset = "found") = (at # {})
                /\ at = {} => c.assetId = 0
                /\ at # {} =>
                      \E k \in at : /\ \A j \in at : k <= j
                                     /\ c.assetId = list[k].id
                /\ (c.result = "skipped") = (c.asset = "found")
                /\ (c.asset = "absent" /\ c.result = "running") =>
                      pc \in PipelinePcs

C14_Witness ==
    /\ done # <<>>
    /\ done[1].result = "skipped"
    /\ done[1].assetId = 2
    /\ Len(assets[1]) = 3
    /\ assets[1][1].name = [stem |-> "Linux-5.4.0", exts |-> <<".tar.gz">>]
    /\ assets[1][3].name = assetName

\* a component that parseInt made no number of
NoNumber(a) == a.t = "nan"

C16_ConcurrentResolution ==
    \A p, q \in Racers :
        (/\ p # q
         /\ resolvers[p].pc \in {"returned", "thrown"}
         /\ resolvers[q].pc \in {"returned", "thrown"}
         /\ 500 \notin {resolvers[p].lookup, resolvers[p].status,
                         resolvers[q].lookup, resolvers[q].status}) =>
            /\ resolvers[p].pc = "returned"
            /\ resolvers[q].pc = "returned"
            /\ resolvers[p].ret = resolvers[q].ret
            /\ Cardinality({r \in releases : r.tag = otpVersions[1]}) = 1

\* the tools makeAsset runs after the patches, in its order
StagesOf(plat) ==
    (IF plat = "darwin" THEN <<"brew">> ELSE <<>>)
    \o <<"otp_build", "configure", "compile", "makeRelease", "tar", "shasum">>

\* how many of them have completed when run() is at a position
StagesBefore(plat, at) ==
    LET brew == IF plat = "darwin" THEN 1 ELSE 0
    IN  CASE at = "otp_build" -> brew
          [] at = "configure" -> brew + 1
          [] at = "compile" -> brew + 2
          [] at = "makeRelease" -> brew + 3
          [] at \in {"archive", "tar"} -> brew + 4
          [] at = "sha256" -> brew + 5
          [] at = "uploadAssets" -> brew + 6
          [] OTHER -> 0

\* the stages completed for the version in progress are the first stages of
\* makeAsset, as many as the position of run() tells, and follow the patches
StagesInOrder ==
    /\ stageLog = SubSeq(StagesOf(platform), 1, StagesBefore(platform, pc))
    /\ pc \in {"make", "otp_build", "configure", "compile", "makeRelease",
                "archive", "tar", "sha256", "uploadAssets"} =>
          patchLog = ClaimedPatches(platform, Version)
    /\ pc \notin PipelinePcs => patchLog = <<>>

\* uploads are started for a version only when all its stages completed, and
\* a version that failed has nothing uploaded
UploadsOnlyWhenBuilt ==
    /\ \A u \in uploads : u.ver <= Len(done) /\ done[u.ver].result = "built"
    /\ \A r \in unhandled : r.ver <= Len(done) /\ done[r.ver].result = "built"
    /\ \A i \in 1..Len(done) :
          /\ (done[i].uploads = 2) = (done[i].result = "built")
          /\ done[i].result # "built" =>
                /\ done[i].uploads = 0
                /\ AssetsOf(assets, ReleaseOf(releases, otpVersions[i])) = <<>>

\* a stage that fails ends the loop body of its version
FailureAborts ==
    (pc \in PipelinePcs /\ errorLog' # errorLog) =>
        /\ errorLog' = Append(errorLog, otpVersions[idx])
        /\ idx' = idx + 1
        /\ pc' \in {"reset", "drain"}
        /\ uploads' = uploads
        /\ stageLog' = <<>>

\* C17: a version is built by the patches in selector order, then bootstrap,
\* configure, compile, release, archive, checksum, and upload, each after the
\* one before it completed; a failing stage ends the version: no later stage
\* runs, nothing is uploaded, nothing is tried again.
C17_StageOrder ==
    /\ [](StagesInOrder /\ UploadsOnlyWhenBuilt)
    /\ [][FailureAborts]_vars

C17_Witness ==
    /\ pc = "uploadAssets"
    /\ platform = "darwin"
    /\ stageLog = <<"brew", "otp_build", "configure", "compile", "makeRelease",
                    "tar", "shasum">>
    /\ patchLog = <<"wxptr", "catalina", "zlib">>
    /\ uploads = {}

\* C18: when the release of a version is resolved and when its patches are
\* applied, the working tree holds no patch and no build output of an
\* earlier version, whether that version was built, skipped or failed: the
\* only patches are those of the version itself, and every untracked file
\* there is was made for it.
C18_PristineCheckout ==
    pc \in {"getRelease", "createRelease", "getAsset"} \cup PipelinePcs =>
        /\ wtPatches = patchLog
        /\ \A k \in DOMAIN files :
              files[k].exists => files[k].src = otpVersions[idx]

\* C19: whenever the checkout of a version starts, the process is in the
\* directory it was in at the start of the run, whatever stage of an earlier
\* version failed.
C19_WorkingDirectory ==
    pc \in {"reset", "checkout", "clean"} => cwd = "root"

\* the names of the assets of the release of a tag
AssetNamesOf(tag) ==
    LET list == AssetsOf(assets, ReleaseOf(releases, tag))
    IN  { list[k].name : k \in 1..Len(list) }

\* C20: a version that is built starts exactly two uploads, to its own
\* release, one for the archive and one for the checksum file, each under the
\* base name of its file, and its loop body ends without error only when
\* both are in the registry.
C20_TwoUploads ==
    /\ \A u \in uploads :
          /\ u.rel = ReleaseOf(releases, otpVersions[u.ver])
          /\ u.name = UploadName(u.kind, assetName)
    /\ \A i \in 1..Len(done) :
          done[i].result = "built" =>
              /\ done[i].uploads = 2
              /\ AssetNamesOf(otpVersions[i]) =
                     {assetName, Sha256FileName(assetName)}

\* the archive and the checksum file of a tag are both in its release
Complete(tag) ==
    {assetName, Sha256FileName(assetName)} \subseteq AssetNamesOf(tag)

\* C21: over any sequence of runs, a version that ends a run without a logged
\* failure, built or skipped as already present, has both its archive and
\* its checksum file under its release when the run is over; a release left
\* with the archive only is completed by a later run.
C21_PublishedComplete ==
    pc = "exit" =>
        \A i \in 1..Len(done) :
            done[i].result # "failed" => Complete(otpVersions[i])

\* how many of the lines a step appends to a log carry the tag
Appended(before, after, tag) ==
    Cardinality({ k \in (Len(before) + 1)..Len(after) : after[k] = tag })

\* the step ends the loop body of the version at idx
Finishes == Len(done') = Len(done) + 1

\* C22: the step that finishes a version, built, skipped or failed, emits
\* exactly one log line that carries the version's tag; it is an error line
\* exactly when the version failed, so a failed version has one error line
\* and a built or skipped version none.
C22_PerVersionReporting ==
    [][Finishes =>
          LET tag == otpVersions[idx]
              infos == Appended(infoLog, infoLog', tag)
              errors == Appended(errorLog, errorLog', tag)
          IN  /\ infos + errors = 1
              /\ errors = IF done'[idx].result = "failed" THEN 1 ELSE 0]_vars

====
